---- MODULE Spec2Model ----
(***************************************************************************)
(* Model of k8s_manager.py: a menu loop that dispatches to five handlers,  *)
(* each a straight sequence of prompts (input) and external commands       *)
(* (run_command).  Python strings are sequences of one-character strings;  *)
(* "NL" stands for the newline character, "SP" for a space and "SUP2" for  *)
(* the character U+00B2, which str.isdigit accepts and int rejects.        *)
(***************************************************************************)
EXTENDS Integers, Sequences, FiniteSets, TLC

VARIABLES
    pc,          \* position of the single thread of control
    handler,     \* handler of the current (or last finished) invocation
    result,      \* its return value: "none", "True", "False" or "raised"
    log,         \* the run_command calls of this invocation, in order
    last,        \* what the latest run_command call saw and gave back
    loc,         \* local variables of the handler
    file,        \* prometheus-values.yaml: existence and content
    fileBefore,  \* the file as it was when the handler was invoked
    exitCode,    \* -1 while the process runs, then its exit status
    exitCause    \* "none", "choice6", "interrupt" or "exception"

vars == <<pc, handler, result, log, last, loc, file, fileBefore, exitCode, exitCause>>

----------------------------------------------------------------------------
(* Bounds of the model *)

\* most namespaces `kubectl get namespaces` lists
MaxNamespaces == 2
\* most blank lines between `hosts:` and its first entry in an existing file
MaxBlankLines == 1

----------------------------------------------------------------------------
(* Python string primitives *)

Str(c) == <<c>>

\* the pieces of ss joined in order, halving ss to keep the nesting shallow
RECURSIVE Concat(_)
Concat(ss) ==
    IF ss = <<>> THEN <<>>
    ELSE IF Len(ss) = 1 THEN ss[1]
    ELSE LET h == Len(ss) \div 2
         IN  Concat(SubSeq(ss, 1, h)) \o Concat(SubSeq(ss, h + 1, Len(ss)))

\* `x or default` on strings: the empty string is falsy
OrDefault(s, d) == IF s = <<>> THEN d ELSE s

LowerChar(c) ==
    CASE c = "Y" -> "y"
      [] c = "E" -> "e"
      [] c = "S" -> "s"
      [] c = "N" -> "n"
      [] c = "O" -> "o"
      [] OTHER   -> c

\* str.lower
Lower(s) == [i \in DOMAIN s |-> LowerChar(s[i])]

Whitespace == {"SP", "NL"}

RECURSIVE LStrip(_)
LStrip(s) == IF s # <<>> /\ Head(s) \in Whitespace THEN LStrip(Tail(s)) ELSE s

RECURSIVE RStrip(_)
RStrip(s) ==
    IF s # <<>> /\ s[Len(s)] \in Whitespace THEN RStrip(SubSeq(s, 1, Len(s) - 1)) ELSE s

\* str.strip
Strip(s) == RStrip(LStrip(s))

\* str.split('\n'): always at least one piece
SplitNL(s) ==
    LET nls == {i \in DOMAIN s : s[i] = "NL"}
        \* piece k lies between the (k-1)-th and the k-th newline
        from(k) == CHOOSE i \in {0} \cup nls : Cardinality({j \in nls : j <= i}) = k - 1
        upto(k) == CHOOSE i \in nls \cup {Len(s) + 1} : Cardinality({j \in nls : j < i}) = k - 1
    IN  [k \in 1..(Cardinality(nls) + 1) |-> SubSeq(s, from(k) + 1, upto(k) - 1)]

DecimalChars == {"0", "1", "2", "3", "4", "5", "6", "7", "8", "9"}

\* str.isdigit: non-empty and every character has the Unicode digit property,
\* which the superscript two has although it is no decimal digit
IsDigit(s) == s # <<>> /\ \A i \in DOMAIN s : s[i] \in DecimalChars \cup {"SUP2"}

DigitValue(c) ==
    CASE c = "0" -> 0 [] c = "1" -> 1 [] c = "2" -> 2 [] c = "3" -> 3 [] c = "4" -> 4
      [] c = "5" -> 5 [] c = "6" -> 6 [] c = "7" -> 7 [] c = "8" -> 8 [] c = "9" -> 9

\* int(s) raises ValueError unless every character is a decimal digit
IntRaises(s) == s = <<>> \/ \E i \in DOMAIN s : s[i] \notin DecimalChars

RECURSIVE IntOf(_)
IntOf(s) ==
    IF s = <<>> THEN 0 ELSE 10 * IntOf(SubSeq(s, 1, Len(s) - 1)) + DigitValue(s[Len(s)])

----------------------------------------------------------------------------
(* run_command *)

\* What subprocess.run can do: return with exit code zero, raise
\* CalledProcessError (check=True, nonzero exit), or raise anything else.
ProcKinds == {"exit0", "nonzero", "exception"}

Procs(stdouts) ==
    {[kind |-> "exit0", stdout |-> s, stderr |-> <<>>, msg |-> <<>>] : s \in stdouts}
    \cup {[kind |-> "nonzero", stdout |-> <<>>, stderr |-> Str("E"), msg |-> <<>>],
          [kind |-> "exception", stdout |-> <<>>, stderr |-> <<>>, msg |-> Str("X")]}

NoOutput == {<<>>}

run_command_NoCatchAll(proc) ==
    CASE proc.kind = "exit0"   -> [raised |-> FALSE, success |-> TRUE, output |-> proc.stdout]
      [] proc.kind = "nonzero" -> [raised |-> FALSE, success |-> FALSE, output |-> proc.stderr]
      [] OTHER                 -> [raised |-> TRUE, success |-> FALSE, output |-> proc.msg]

run_command(proc) ==
    CASE proc.kind = "exit0"   -> [raised |-> FALSE, success |-> TRUE, output |-> proc.stdout]
      [] proc.kind = "nonzero" -> [raised |-> FALSE, success |-> FALSE, output |-> proc.stderr]
      [] OTHER                 -> [raised |-> FALSE, success |-> FALSE, output |-> proc.msg]

NoCall == [called |-> FALSE, kind |-> "exit0", raised |-> FALSE, success |-> TRUE]

\* one call of run_command, recorded
Run(cmd, args, proc) ==
    LET r == run_command(proc) IN
    /\ log' = Append(log, [cmd |-> cmd, args |-> args, ok |-> r.success /\ ~r.raised])
    /\ last' = [called |-> TRUE, kind |-> proc.kind, raised |-> r.raised,
                success |-> r.success]

----------------------------------------------------------------------------
(* Control *)

\* The handler's locals.  asked, listed, entries and selection describe the
\* latest name prompt ("none", "namespace", "release" or "manual"); the code
\* reads them no more once the choice is resolved, and Past drops them.
\* output is the stdout of the release listing, dropped the same way.
Unbound == <<"(unbound)">>

NoLocals ==
    [region |-> <<>>, username |-> Unbound, purpose |-> Unbound, confirm |-> Unbound,
     asked |-> "none", listed |-> FALSE, entries |-> <<>>, selection |-> <<>>,
     output |-> <<>>, namespace |-> <<>>, release_name |-> <<>>, hostname |-> <<>>,
     resource_choice |-> <<>>, details |-> <<>>]

Past(l) ==
    [l EXCEPT !.asked = "none", !.listed = FALSE, !.entries = <<>>, !.selection = <<>>,
              !.output = <<>>]

Goto(l) == pc' = l /\ UNCHANGED <<result, exitCode, exitCause>>

\* the handler returns to main_menu, which then waits at line 518
Return(v) == pc' = "pause" /\ result' = v /\ UNCHANGED <<exitCode, exitCause>>

\* an exception no frame catches: the interpreter prints a traceback and exits 1
Raise ==
    /\ pc' = "exited"
    /\ result' = "raised"
    /\ exitCode' = 1
    /\ exitCause' = "exception"

\* after a run_command call: leave on a raise, else continue as the code does
After(proc, next) == IF run_command(proc).raised THEN Raise ELSE next

----------------------------------------------------------------------------
(* main_menu *)

MenuInputs == {Str("1"), Str("2"), Str("3"), Str("4"), Str("5"), Str("6"), Str("7"), <<>>}

main_menu_choice ==
    /\ pc = "menu"
    /\ \E choice \in MenuInputs :
        /\ fileBefore' = file
        /\ UNCHANGED <<loc, log, last, file>>
        /\ CASE choice = Str("1") ->
                  handler' = "connect" /\ result' = "none" /\ pc' = "connect_region"
                  /\ UNCHANGED <<exitCode, exitCause>>
             [] choice = Str("2") ->
                  handler' = "create" /\ result' = "none" /\ pc' = "create_username"
                  /\ UNCHANGED <<exitCode, exitCause>>
             [] choice = Str("3") ->
                  handler' = "deploy" /\ result' = "none" /\ pc' = "deploy_helm_version"
                  /\ UNCHANGED <<exitCode, exitCause>>
             [] choice = Str("4") ->
                  handler' = "status" /\ result' = "none" /\ pc' = "status_list_namespaces"
                  /\ UNCHANGED <<exitCode, exitCause>>
             [] choice = Str("5") ->
                  handler' = "delete" /\ result' = "none" /\ pc' = "delete_choice"
                  /\ UNCHANGED <<exitCode, exitCause>>
             [] choice = Str("6") ->
                  handler' = "none" /\ result' = "none" /\ pc' = "exited"
                  /\ exitCode' = 0 /\ exitCause' = "choice6"
             [] OTHER ->
                  handler' = "none" /\ result' = "none" /\ pc' = "pause"
                  /\ UNCHANGED <<exitCode, exitCause>>

\* line 518: input("Press Enter to continue..."); the handler's frame is gone
main_menu_pause ==
    /\ pc = "pause"
    /\ pc' = "menu"
    /\ handler' = "none"
    /\ result' = "none"
    /\ log' = <<>>
    /\ last' = NoCall
    /\ loc' = NoLocals
    /\ UNCHANGED <<file, fileBefore, exitCode, exitCause>>

\* lines 520-526: KeyboardInterrupt at any point of the run unwinds every frame
keyboard_interrupt ==
    /\ pc # "exited"
    /\ pc' = "exited"
    /\ exitCode' = 0
    /\ exitCause' = "interrupt"
    /\ handler' = "none"
    /\ result' = "none"
    /\ log' = <<>>
    /\ last' = NoCall
    /\ loc' = NoLocals
    /\ fileBefore' = file
    /\ UNCHANGED file

----------------------------------------------------------------------------
(* connect_to_eks_cluster *)

RegionInputs == {<<>>, Str("r")}
ClusterInputs == {<<>>, Str("c")}

connect_set_region ==
    /\ pc = "connect_region"
    /\ \E inp \in RegionInputs, proc \in Procs(NoOutput) :
        LET region == OrDefault(inp, Str("us-east-1")) IN
        /\ Run("aws configure set region", <<region>>, proc)
        /\ loc' = [loc EXCEPT !.region = region]
        /\ After(proc, IF ~run_command(proc).success
                       THEN Return("False")
                       ELSE Goto("connect_kubeconfig"))
    /\ UNCHANGED <<handler, file, fileBefore>>

connect_update_kubeconfig ==
    /\ pc = "connect_kubeconfig"
    /\ \E inp \in ClusterInputs, proc \in Procs(NoOutput) :
        LET cluster_name == OrDefault(inp, Str("shared-eks-cluster")) IN
        /\ Run("aws eks update-kubeconfig", <<cluster_name, loc.region>>, proc)
        /\ After(proc, IF run_command(proc).success
                       THEN Return("True")
                       ELSE Return("False"))
    /\ UNCHANGED <<handler, loc, file, fileBefore>>

----------------------------------------------------------------------------
(* create_namespace *)

UsernameInputs == {<<>>, <<"a", "z", "n", "i">>}
PurposeInputs == {<<>>, <<"p", "r", "o", "m">>}
YesNoInputs ==
    {<<>>, <<"y">>, <<"Y">>, <<"n">>, <<"y", "e", "s">>, <<"Y", "e", "s">>,
     <<"Y", "E", "S">>, <<"n", "o">>, <<"y", "SP">>}

\* `not s`: the empty string is falsy
IsEmpty_Never(s) == FALSE

IsEmpty(s) == s = <<>>

create_namespace_username ==
    /\ pc = "create_username"
    /\ \E username \in UsernameInputs :
        /\ loc' = [loc EXCEPT !.username = username]
        /\ IF IsEmpty(username) THEN Return("False") ELSE Goto("create_purpose")
    /\ UNCHANGED <<handler, log, last, file, fileBefore>>

create_namespace_purpose ==
    /\ pc = "create_purpose"
    /\ \E purpose \in PurposeInputs :
        /\ IF IsEmpty(purpose)
           THEN loc' = [loc EXCEPT !.purpose = purpose] /\ Return("False")
           ELSE /\ loc' = [loc EXCEPT !.purpose = purpose,
                                      !.namespace = loc.username \o Str("-") \o purpose]
                /\ Goto("create_confirm")
    /\ UNCHANGED <<handler, log, last, file, fileBefore>>

create_confirmed_AnyY(confirm) == confirm # <<>> /\ Lower(confirm)[1] = "y"

\* line 111: confirm.lower() != "y" cancels
create_confirmed(confirm) == Lower(confirm) = Str("y")

create_namespace_confirm ==
    /\ pc = "create_confirm"
    /\ \E confirm \in YesNoInputs :
        /\ loc' = [loc EXCEPT !.confirm = confirm]
        /\ IF ~create_confirmed(confirm) THEN Return("False") ELSE Goto("create_run")
    /\ UNCHANGED <<handler, log, last, file, fileBefore>>

create_namespace_run_AlwaysTrue ==
    /\ pc = "create_run"
    /\ \E proc \in Procs(NoOutput) :
        /\ Run("kubectl create namespace", <<loc.namespace>>, proc)
        /\ After(proc, Return("True"))
    /\ UNCHANGED <<handler, loc, file, fileBefore>>

create_namespace_run ==
    /\ pc = "create_run"
    /\ \E proc \in Procs(NoOutput) :
        /\ Run("kubectl create namespace", <<loc.namespace>>, proc)
        /\ After(proc, IF run_command(proc).success
                       THEN Return("True")
                       ELSE Return("False"))
    /\ UNCHANGED <<handler, loc, file, fileBefore>>

----------------------------------------------------------------------------
(* Choosing from a numbered list (lines 154-169, and again in the delete and *)
(* status handlers)                                                          *)

AllNames == <<"a", "b", "c", "d">>
DigitChar == <<"1", "2", "3", "4", "5">>

RECURSIVE JoinNL(_)
JoinNL(names) == IF names = <<>> THEN <<>> ELSE Str(Head(names)) \o Str("NL") \o JoinNL(Tail(names))

\* stdout of `kubectl get namespaces ... --no-headers`: nothing, one name a
\* line, or a lone newline
NamespaceOutputs ==
    {<<>>, Str("NL")} \cup {JoinNL(SubSeq(AllNames, 1, n)) : n \in 1..MaxNamespaces}

SelectionInputs ==
    {<<>>, Str("0"), <<"0", "1">>, Str("x"), Str("SUP2")}
    \cup {Str(DigitChar[k]) : k \in 1..(MaxNamespaces + 1)}

\* selection.isdigit() and 1 <= int(selection) <= len(entries): `and` evaluates
\* int only when isdigit holds, and int then raises on a non-decimal digit
SelectRaises(selection) == IsDigit(selection) /\ IntRaises(selection)

InRange(entries, selection) ==
    IsDigit(selection) /\ 1 <= IntOf(selection) /\ IntOf(selection) <= Len(entries)

Select(entries, selection) ==
    IF InRange(entries, selection) THEN entries[IntOf(selection)] ELSE selection

\* The block every handler but connect and create repeats: list the
\* namespaces, prompt, resolve the answer, refuse an empty namespace.
SelectNamespace(next) ==
    \E proc \in Procs(NamespaceOutputs), selection \in SelectionInputs :
        LET r == run_command(proc)
            listed == r.success /\ r.output # <<>>
            namespaces == IF listed THEN SplitNL(Strip(r.output)) ELSE <<>>
        IN
        /\ Run("kubectl get namespaces", <<>>, proc)
        /\ IF r.raised
           THEN Raise /\ UNCHANGED loc
           ELSE IF listed /\ SelectRaises(selection)
           THEN /\ loc' = [loc EXCEPT !.entries = namespaces, !.listed = listed,
                                      !.asked = "namespace", !.selection = selection]
                /\ Raise
           ELSE LET namespace == IF listed THEN Select(namespaces, selection) ELSE selection
                IN  /\ loc' = [loc EXCEPT !.entries = namespaces, !.listed = listed,
                                          !.asked = "namespace", !.selection = selection,
                                          !.namespace = namespace]
                    /\ IF IsEmpty(namespace) THEN Return("False") ELSE Goto(next)

----------------------------------------------------------------------------
(* prometheus-values.yaml *)

\* File text is a sequence of tokens: "NL", "SP", "hosts:", "-", "Q" (a double
\* quote), "ANNOT" (external-dns.alpha.kubernetes.io/hostname:), the characters
\* of a hostname, and opaque pieces of other text.

Spaces(n) == [i \in 1..n |-> "SP"]

Line(indent, toks) == Spaces(indent) \o toks \o Str("NL")

\* index of the last token of `.*` started at position i (i - 1 when empty)
DotStarEnd(s, i) ==
    LET stops == {j \in i..Len(s) : s[j] = "NL"}
    IN  IF stops = {} THEN Len(s)
        ELSE (CHOOSE j \in stops : \A k \in stops : j <= k) - 1

\* length of the whitespace run that starts at position i
SpaceRun(s, i) ==
    LET stops == {j \in i..Len(s) : s[j] \notin Whitespace}
    IN  IF stops = {} THEN Len(s) - i + 1
        ELSE (CHOOSE j \in stops : \A k \in stops : j <= k) - i

\* r'hosts:\s*\n\s*- .*' matched at position 1 of s: the index of the last
\* token of the match, or 0.  Both \s* lie in the whitespace run after
\* `hosts:`, which must hold a newline and be followed by "- ".
HostsMatchEnd(s) ==
    IF s = <<>> \/ s[1] # "hosts:" THEN 0
    ELSE LET w == SpaceRun(s, 2) IN
         IF /\ \E i \in 2..(1 + w) : s[i] = "NL"
            /\ Len(s) >= 3 + w
            /\ s[2 + w] = "-"
            /\ s[3 + w] = "SP"
         THEN DotStarEnd(s, 4 + w)
         ELSE 0

\* the replacement f'hosts:\n      - {hostname}'
HostsRepl(hostname) == <<"hosts:", "NL">> \o Spaces(6) \o <<"-", "SP">> \o hostname

\* line 233: re.sub replaces every non-overlapping match, leftmost first
RECURSIVE SubHosts(_, _)
SubHosts(s, hostname) ==
    LET starts == {i \in DOMAIN s : HostsMatchEnd(SubSeq(s, i, Len(s))) > 0} IN
    IF starts = {} THEN s
    ELSE LET i == CHOOSE j \in starts : \A k \in starts : j <= k
             e == i - 1 + HostsMatchEnd(SubSeq(s, i, Len(s)))
         IN  SubSeq(s, 1, i - 1) \o HostsRepl(hostname)
                 \o SubHosts(SubSeq(s, e + 1, Len(s)), hostname)

\* r'external-dns.alpha.kubernetes.io/hostname: ".*"' matched at position 1:
\* `.*"` is greedy, so the match ends at the last quote of the line
AnnotMatchEnd(s) ==
    IF Len(s) < 4 \/ s[1] # "ANNOT" \/ s[2] # "SP" \/ s[3] # "Q" THEN 0
    ELSE LET quotes == {i \in 4..DotStarEnd(s, 4) : s[i] = "Q"} IN
         IF quotes = {} THEN 0 ELSE CHOOSE i \in quotes : \A j \in quotes : j <= i

AnnotRepl(hostname) == <<"ANNOT", "SP", "Q">> \o hostname \o Str("Q")

\* line 234
RECURSIVE SubAnnot(_, _)
SubAnnot(s, hostname) ==
    LET starts == {i \in DOMAIN s : AnnotMatchEnd(SubSeq(s, i, Len(s))) > 0} IN
    IF starts = {} THEN s
    ELSE LET i == CHOOSE j \in starts : \A k \in starts : j <= k
             e == i - 1 + AnnotMatchEnd(SubSeq(s, i, Len(s)))
         IN  SubSeq(s, 1, i - 1) \o AnnotRepl(hostname)
                 \o SubAnnot(SubSeq(s, e + 1, Len(s)), hostname)

\* lines 231-234
RewriteHostname(content, hostname) == SubAnnot(SubHosts(content, hostname), hostname)

\* lines 190-221: the default file
DefaultValues(hostname) ==
    Concat(<<
        Line(0, Str("prometheus-node-exporter:")),
        Line(2, Str("enabled: false")),
        Line(0, Str("kube-state-metrics:")),
        Line(2, Str("enabled: false")),
        Line(0, Str("alertmanager:")),
        Line(2, Str("enabled: false")),
        Line(0, Str("serverFiles:")),
        Line(2, Str("prometheus.yml:")),
        Line(4, Str("scrape_configs:")),
        Line(6, Str("- job_name: prometheus")),
        Line(8, Str("static_configs:")),
        Line(10, Str("- targets:")),
        Line(14, Str("- localhost:9090")),
        Line(6, Str("- job_name: node-exporter")),
        Line(8, Str("static_configs:")),
        Line(10, Str("- targets:")),
        Line(14, Str("- kube-prometheus-stack-prometheus-node-exporter.monitoring:9100")),
        Line(6, Str("- job_name: nginx")),
        Line(8, Str("static_configs:")),
        Line(10, Str("- targets:")),
        Line(14, Str("- ingress-nginx-controller-metrics.ingress-nginx:10254")),
        Line(0, Str("server:")),
        Line(2, Str("persistentVolume:")),
        Line(4, Str("enabled: false")),
        Line(2, Str("ingress:")),
        Line(4, Str("enabled: true")),
        Line(4, Str("ingressClassName: nginx")),
        Line(4, Str("hosts:")),
        Line(6, <<"-", "SP">> \o hostname),
        Line(4, Str("annotations:")),
        Line(6, <<"ANNOT", "SP", "Q">> \o hostname \o Str("Q"))
    >>)

\* Files an earlier run or the user may have left in the working directory
HostsBlock(at, trail, blanks, indent, old) ==
    Line(at, Str("hosts:") \o Spaces(trail))
    \o Concat([i \in 1..blanks |-> Line(0, <<>>)])
    \o Line(indent, <<"-", "SP">> \o old)

\* a file of the shape the tool writes, with 0..MaxBlankLines blank lines under
\* `hosts:`; and a hand-edited one: a space after `hosts:`, two entries
\* indented by two, a comment after the annotation, an inline host list
ExistingContents ==
    {Line(0, Str("server:")) \o HostsBlock(4, 0, b, 6, Str("o"))
        \o Line(4, Str("annotations:"))
        \o Line(6, <<"ANNOT", "SP", "Q", "o", "Q">>) : b \in 0..MaxBlankLines}
    \cup {HostsBlock(0, 1, 0, 2, Str("o")) \o Line(2, <<"-", "SP", "p">>)
            \o Line(6, <<"ANNOT", "SP", "Q", "o", "Q", "SP", "# c">>)
            \o Line(0, Str("hosts: [o]"))}

InitialFiles ==
    {[exists |-> FALSE, content |-> <<>>]}
    \cup {[exists |-> TRUE, content |-> c] : c \in ExistingContents}

\* open/read/write of the values file: it works, open raises OSError, or the
\* write raises after open has truncated or created the file
IOOutcomes == {"ok", "open_error", "write_error"}

----------------------------------------------------------------------------
(* deploy_prometheus *)

ReleaseInputs == {<<>>, Str("r")}
HostnameInputs == {<<>>, Str("h")}

deploy_helm_version ==
    /\ pc = "deploy_helm_version"
    /\ \E proc \in Procs(NoOutput) :
        /\ Run("helm version", <<>>, proc)
        /\ After(proc, IF ~run_command(proc).success
                       THEN Goto("deploy_install_helm")
                       ELSE Goto("deploy_repo_add"))
    /\ UNCHANGED <<handler, loc, file, fileBefore>>

deploy_install_helm ==
    /\ pc = "deploy_install_helm"
    /\ \E proc \in Procs(NoOutput) :
        /\ Run("curl get-helm-3 | bash", <<>>, proc)
        /\ After(proc, IF ~run_command(proc).success
                       THEN Return("False")
                       ELSE Goto("deploy_repo_add"))
    /\ UNCHANGED <<handler, loc, file, fileBefore>>

deploy_repo_add ==
    /\ pc = "deploy_repo_add"
    /\ \E proc \in Procs(NoOutput) :
        /\ Run("helm repo add", <<>>, proc)
        /\ After(proc, IF ~run_command(proc).success
                       THEN Return("False")
                       ELSE Goto("deploy_repo_update"))
    /\ UNCHANGED <<handler, loc, file, fileBefore>>

deploy_repo_update_NoAbort ==
    /\ pc = "deploy_repo_update"
    /\ \E proc \in Procs(NoOutput) :
        /\ Run("helm repo update", <<>>, proc)
        /\ After(proc, Goto("deploy_select_namespace"))
    /\ UNCHANGED <<handler, loc, file, fileBefore>>

deploy_repo_update ==
    /\ pc = "deploy_repo_update"
    /\ \E proc \in Procs(NoOutput) :
        /\ Run("helm repo update", <<>>, proc)
        /\ After(proc, IF ~run_command(proc).success
                       THEN Return("False")
                       ELSE Goto("deploy_select_namespace"))
    /\ UNCHANGED <<handler, loc, file, fileBefore>>

deploy_select_namespace ==
    /\ pc = "deploy_select_namespace"
    /\ SelectNamespace("deploy_release_name")
    /\ UNCHANGED <<handler, file, fileBefore>>

deploy_release_name ==
    /\ pc = "deploy_release_name"
    /\ \E inp \in ReleaseInputs :
        loc' = [Past(loc) EXCEPT
                   !.release_name = OrDefault(inp, loc.namespace \o Str("-prom"))]
    /\ Goto("deploy_values_file")
    /\ UNCHANGED <<handler, log, last, file, fileBefore>>

deploy_values_file_Overwrite ==
    /\ pc = "deploy_values_file"
    /\ \E inp \in HostnameInputs, io \in IOOutcomes :
        LET hostname == OrDefault(inp, loc.namespace \o Str(".sctp-sandbox.com")) IN
        /\ loc' = [loc EXCEPT !.hostname = hostname]
        /\ CASE io = "ok" ->
                  /\ file' = [exists |-> TRUE, content |-> DefaultValues(hostname)]
                  /\ Goto("deploy_upgrade")
             [] io = "open_error" -> UNCHANGED file /\ Raise
             [] OTHER -> file' = [exists |-> TRUE, content |-> <<>>] /\ Raise
    /\ UNCHANGED <<handler, log, last, fileBefore>>

\* lines 180-240
deploy_values_file ==
    /\ pc = "deploy_values_file"
    /\ \E inp \in HostnameInputs, io \in IOOutcomes :
        LET hostname == OrDefault(inp, loc.namespace \o Str(".sctp-sandbox.com")) IN
        /\ loc' = [loc EXCEPT !.hostname = hostname]
        /\ IF ~file.exists
           THEN CASE io = "ok" ->
                       /\ file' = [exists |-> TRUE, content |-> DefaultValues(hostname)]
                       /\ Goto("deploy_upgrade")
                  [] io = "open_error" -> UNCHANGED file /\ Raise
                  [] OTHER -> file' = [exists |-> TRUE, content |-> <<>>] /\ Raise
           ELSE CASE io = "ok" ->
                       /\ file' = [exists |-> TRUE,
                                   content |-> RewriteHostname(file.content, hostname)]
                       /\ Goto("deploy_upgrade")
                  [] io = "open_error" -> UNCHANGED file /\ Raise
                  [] OTHER -> file' = [exists |-> TRUE, content |-> <<>>] /\ Raise
    /\ UNCHANGED <<handler, log, last, fileBefore>>

deploy_upgrade ==
    /\ pc = "deploy_upgrade"
    /\ \E proc \in Procs(NoOutput) :
        /\ Run("helm upgrade --install", <<loc.release_name, loc.namespace>>, proc)
        /\ After(proc, IF run_command(proc).success
                       THEN Goto("deploy_get_pods")
                       ELSE Return("False"))
    /\ UNCHANGED <<handler, loc, file, fileBefore>>

deploy_get_pods ==
    /\ pc = "deploy_get_pods"
    /\ \E proc \in Procs(NoOutput) :
        /\ Run("kubectl get pods", <<loc.namespace>>, proc)
        /\ After(proc, Goto("deploy_get_svc"))
    /\ UNCHANGED <<handler, loc, file, fileBefore>>

deploy_get_svc ==
    /\ pc = "deploy_get_svc"
    /\ \E proc \in Procs(NoOutput) :
        /\ Run("kubectl get svc", <<loc.namespace>>, proc)
        /\ After(proc, Goto("deploy_get_ingress"))
    /\ UNCHANGED <<handler, loc, file, fileBefore>>

deploy_get_ingress ==
    /\ pc = "deploy_get_ingress"
    /\ \E proc \in Procs(NoOutput) :
        /\ Run("kubectl get ingress", <<loc.namespace>>, proc)
        /\ After(proc, Return("True"))
    /\ UNCHANGED <<handler, loc, file, fileBefore>>

----------------------------------------------------------------------------
(* delete_resources *)

DeleteChoices == {Str("1"), Str("2"), Str("3"), Str("x")}

delete_choice ==
    /\ pc = "delete_choice"
    /\ \E choice \in DeleteChoices :
        CASE choice = Str("1") -> Goto("delete_release_select_namespace")
          [] choice = Str("2") -> Goto("delete_namespace_select_namespace")
          [] choice = Str("3") -> Return("True")
          [] OTHER -> Return("False")
    /\ UNCHANGED <<handler, log, last, loc, file, fileBefore>>

delete_release_select_namespace ==
    /\ pc = "delete_release_select_namespace"
    /\ SelectNamespace("delete_release_list")
    /\ UNCHANGED <<handler, file, fileBefore>>

\* stdout of `helm list -n <ns> -o json`, as JSON tokens (commas and colons
\* left out): a key is followed by its value
Release(name) == <<"{", "name", name, "chart", "c", "}">>

EmptyList == <<"[", "]">>

HelmListOutputs ==
    {<<>>,
     EmptyList \o Str("NL"),
     Str("[") \o Release("r") \o Str("]") \o Str("NL"),
     Str("[") \o Release("r") \o Release("s") \o Str("]") \o Str("NL"),
     <<"[", "{", "chart", "c", "}", "]">>,
     <<"[", "7", "]">>,
     <<"{", "name", "r", "}">>,
     <<"null">>,
     <<"Error">>}

Dict(name) == [type |-> "dict", keys |-> {"name", "chart"}, name |-> name]

\* json.loads on the texts above: the Python value, or JSONDecodeError.  A list
\* or dict value carries what iterating it yields (a dict yields its keys).
json_loads(text) ==
    LET t == Strip(text) IN
    CASE t = EmptyList -> [type |-> "list", items |-> <<>>]
      [] t = Str("[") \o Release("r") \o Str("]") ->
            [type |-> "list", items |-> <<Dict(Str("r"))>>]
      [] t = Str("[") \o Release("r") \o Release("s") \o Str("]") ->
            [type |-> "list", items |-> <<Dict(Str("r")), Dict(Str("s"))>>]
      [] t = <<"[", "{", "chart", "c", "}", "]">> ->
            [type |-> "list",
             items |-> <<[type |-> "dict", keys |-> {"chart"}, name |-> <<>>]>>]
      [] t = <<"[", "7", "]">> ->
            [type |-> "list", items |-> <<[type |-> "int", keys |-> {}, name |-> <<>>]>>]
      [] t = <<"{", "name", "r", "}">> ->
            [type |-> "dict", items |-> <<[type |-> "str", keys |-> {}, name |-> <<>>]>>]
      [] t = <<"null">> -> [type |-> "NoneType", items |-> <<>>]
      [] OTHER -> [type |-> "JSONDecodeError", items |-> <<>>]

\* lines 310-311: enumerate(releases, 1) raises TypeError on a value that is not
\* iterable; release['name'] and release['chart'] raise TypeError on an element
\* that is no dict and KeyError on a dict without the key
ListingRaises(releases) ==
    \/ releases.type \notin {"list", "dict"}
    \/ \E i \in DOMAIN releases.items :
          \/ releases.items[i].type # "dict"
          \/ ~({"name", "chart"} \subseteq releases.items[i].keys)

ReleaseNames(releases) == [i \in DOMAIN releases.items |-> releases.items[i].name]

\* lines 301-324: only json.JSONDecodeError is caught
delete_release_list ==
    /\ pc = "delete_release_list"
    /\ \E proc \in Procs(HelmListOutputs), selection \in SelectionInputs, inp \in ReleaseInputs :
        LET r == run_command(proc)
            manual == OrDefault(inp, loc.namespace \o Str("-prom"))
            releases == json_loads(r.output)
            seen == [Past(loc) EXCEPT !.output = r.output]
        IN
        /\ Run("helm list -o json", <<loc.namespace>>, proc)
        /\ IF r.raised
           THEN Raise /\ loc' = seen
           ELSE IF r.success /\ r.output # <<>> /\ Strip(r.output) # EmptyList
           THEN IF releases.type = "JSONDecodeError"
                THEN /\ loc' = [seen EXCEPT !.asked = "manual", !.release_name = manual]
                     /\ Goto("delete_release_uninstall")
                ELSE IF ListingRaises(releases)
                THEN loc' = seen /\ Raise
                ELSE IF SelectRaises(selection)
                THEN /\ loc' = [seen EXCEPT !.asked = "release", !.listed = TRUE,
                                            !.entries = ReleaseNames(releases),
                                            !.selection = selection]
                     /\ Raise
                ELSE /\ loc' = [seen EXCEPT
                                  !.asked = "release", !.listed = TRUE,
                                  !.entries = ReleaseNames(releases),
                                  !.selection = selection,
                                  !.release_name = Select(ReleaseNames(releases), selection)]
                     /\ Goto("delete_release_uninstall")
           ELSE /\ loc' = [seen EXCEPT !.asked = "manual", !.release_name = manual]
                /\ Goto("delete_release_uninstall")
    /\ UNCHANGED <<handler, file, fileBefore>>

delete_release_uninstall ==
    /\ pc = "delete_release_uninstall"
    /\ \E proc \in Procs(NoOutput) :
        /\ Run("helm uninstall", <<loc.release_name, loc.namespace>>, proc)
        /\ After(proc, IF run_command(proc).success
                       THEN Return("True")
                       ELSE Return("False"))
    /\ loc' = Past(loc)
    /\ UNCHANGED <<handler, file, fileBefore>>

delete_namespace_select_namespace ==
    /\ pc = "delete_namespace_select_namespace"
    /\ SelectNamespace("delete_namespace_get_all")
    /\ UNCHANGED <<handler, file, fileBefore>>

delete_namespace_get_all ==
    /\ pc = "delete_namespace_get_all"
    /\ \E proc \in Procs(NoOutput) :
        /\ Run("kubectl get all", <<loc.namespace>>, proc)
        /\ After(proc, Goto("delete_namespace_confirm"))
    /\ loc' = Past(loc)
    /\ UNCHANGED <<handler, file, fileBefore>>

delete_confirmed_AlsoY(confirm) == Lower(confirm) \in {<<"y", "e", "s">>, <<"y">>}

\* line 368: confirm.lower() != "yes" cancels
delete_confirmed(confirm) == Lower(confirm) = <<"y", "e", "s">>

delete_namespace_confirm ==
    /\ pc = "delete_namespace_confirm"
    /\ \E confirm \in YesNoInputs :
        /\ loc' = [loc EXCEPT !.confirm = confirm]
        /\ IF ~delete_confirmed(confirm)
           THEN Return("False")
           ELSE Goto("delete_namespace_delete")
    /\ UNCHANGED <<handler, log, last, file, fileBefore>>

delete_namespace_delete ==
    /\ pc = "delete_namespace_delete"
    /\ \E proc \in Procs(NoOutput) :
        /\ Run("kubectl delete namespace", <<loc.namespace>>, proc)
        /\ After(proc, IF run_command(proc).success
                       THEN Return("True")
                       ELSE Return("False"))
    /\ UNCHANGED <<handler, loc, file, fileBefore>>

----------------------------------------------------------------------------
(* check_resource_status *)

ResourceChoices ==
    {Str("1"), Str("2"), Str("3"), Str("4"), Str("5"), Str("6"), Str("7"), Str("x")}
DetailInputs == {<<>>, Str("d")}

status_select_namespace ==
    /\ pc = "status_list_namespaces"
    /\ SelectNamespace("status_choice")
    /\ UNCHANGED <<handler, file, fileBefore>>

\* the listing command and the describe command of sub-views 2-6
ListCommand(choice) ==
    CASE choice = Str("2") -> "kubectl get pods"
      [] choice = Str("3") -> "kubectl get svc"
      [] choice = Str("4") -> "kubectl get deployments"
      [] choice = Str("5") -> "kubectl get ingress"
      [] choice = Str("6") -> "helm list"

DescribeCommand(choice) ==
    CASE choice = Str("2") -> "kubectl describe pod"
      [] choice = Str("3") -> "kubectl describe svc"
      [] choice = Str("4") -> "kubectl describe deployment"
      [] choice = Str("5") -> "kubectl describe ingress"
      [] choice = Str("6") -> "helm status"

status_choice ==
    /\ pc = "status_choice"
    /\ \E choice \in ResourceChoices :
        /\ loc' = [Past(loc) EXCEPT !.resource_choice = choice]
        /\ CASE choice = Str("1") -> Goto("status_all_get_all")
             [] choice \in {Str("2"), Str("3"), Str("4"), Str("5"), Str("6")} ->
                    Goto("status_list")
             [] choice = Str("7") -> Goto("status_events")
             [] OTHER -> Return("True")
    /\ UNCHANGED <<handler, log, last, file, fileBefore>>

status_all_get_all ==
    /\ pc = "status_all_get_all"
    /\ \E proc \in Procs(NoOutput) :
        /\ Run("kubectl get all", <<loc.namespace>>, proc)
        /\ After(proc, Goto("status_all_get_ingress"))
    /\ UNCHANGED <<handler, loc, file, fileBefore>>

status_all_get_ingress ==
    /\ pc = "status_all_get_ingress"
    /\ \E proc \in Procs(NoOutput) :
        /\ Run("kubectl get ingress", <<loc.namespace>>, proc)
        /\ After(proc, Goto("status_all_helm_list"))
    /\ UNCHANGED <<handler, loc, file, fileBefore>>

status_all_helm_list ==
    /\ pc = "status_all_helm_list"
    /\ \E proc \in Procs(NoOutput) :
        /\ Run("helm list", <<loc.namespace>>, proc)
        /\ After(proc, Return("True"))
    /\ UNCHANGED <<handler, loc, file, fileBefore>>

\* lines 435-479: list the resources, then offer the details of one
status_list ==
    /\ pc = "status_list"
    /\ \E proc \in Procs(NoOutput) :
        /\ Run(ListCommand(loc.resource_choice), <<loc.namespace>>, proc)
        /\ After(proc, Goto("status_details"))
    /\ UNCHANGED <<handler, loc, file, fileBefore>>

status_details ==
    /\ pc = "status_details"
    /\ \E details \in DetailInputs, proc \in Procs(NoOutput) :
        IF details = <<>>
        THEN Return("True") /\ UNCHANGED <<log, last, loc>>
        ELSE /\ Run(DescribeCommand(loc.resource_choice), <<details, loc.namespace>>, proc)
             /\ loc' = [loc EXCEPT !.details = details]
             /\ After(proc, IF loc.resource_choice = Str("2")
                            THEN Goto("status_logs")
                            ELSE Return("True"))
    /\ UNCHANGED <<handler, file, fileBefore>>

status_logs ==
    /\ pc = "status_logs"
    /\ \E show_logs \in YesNoInputs, proc \in Procs(NoOutput) :
        IF Lower(show_logs) = Str("y")
        THEN /\ Run("kubectl logs", <<loc.details, loc.namespace>>, proc)
             /\ After(proc, Return("True"))
        ELSE Return("True") /\ UNCHANGED <<log, last>>
    /\ UNCHANGED <<handler, loc, file, fileBefore>>

status_events ==
    /\ pc = "status_events"
    /\ \E proc \in Procs(NoOutput) :
        /\ Run("kubectl get events", <<loc.namespace>>, proc)
        /\ After(proc, Return("True"))
    /\ UNCHANGED <<handler, loc, file, fileBefore>>

----------------------------------------------------------------------------

Init ==
    /\ pc = "menu"
    /\ handler = "none"
    /\ result = "none"
    /\ log = <<>>
    /\ last = NoCall
    /\ loc = NoLocals
    /\ file \in InitialFiles
    /\ fileBefore = file
    /\ exitCode = -1
    /\ exitCause = "none"

Next ==
    \/ main_menu_choice
    \/ main_menu_pause
    \/ keyboard_interrupt
    \/ connect_set_region
    \/ connect_update_kubeconfig
    \/ create_namespace_username
    \/ create_namespace_purpose
    \/ create_namespace_confirm
    \/ create_namespace_run
    \/ deploy_helm_version
    \/ deploy_install_helm
    \/ deploy_repo_add
    \/ deploy_repo_update
    \/ deploy_select_namespace
    \/ deploy_release_name
    \/ deploy_values_file
    \/ deploy_upgrade
    \/ deploy_get_pods
    \/ deploy_get_svc
    \/ deploy_get_ingress
    \/ delete_choice
    \/ delete_release_select_namespace
    \/ delete_release_list
    \/ delete_release_uninstall
    \/ delete_namespace_select_namespace
    \/ delete_namespace_get_all
    \/ delete_namespace_confirm
    \/ delete_namespace_delete
    \/ status_select_namespace
    \/ status_choice
    \/ status_all_get_all
    \/ status_all_get_ingress
    \/ status_all_helm_list
    \/ status_list
    \/ status_details
    \/ status_logs
    \/ status_events

Spec == Init /\ [][Next]_vars

----------------------------------------------------------------------------
(* Properties *)

Yes == <<"y", "e", "s">>

Ran(cmd) == \E i \in DOMAIN log : log[i].cmd = cmd

LastCmd == IF log = <<>> THEN "none" ELSE log[Len(log)].cmd

LastOk == log # <<>> /\ log[Len(log)].ok

\* C1 as stated: `kubectl delete namespace` is invoked only if the confirmation
\* input is exactly the string yes; every other input cancels.
C1_DeleteOnlyOnExactYes ==
    (handler = "delete" /\ Ran("kubectl delete namespace")) => loc.confirm = Yes

\* C1, amended: `kubectl delete namespace` is invoked only if the confirmation
\* input lower-cased equals yes; on any other input the handler returns failure
\* and the delete command is not invoked.
C1_DeleteOnlyOnYesAnyCase ==
    handler = "delete" =>
        /\ Ran("kubectl delete namespace") => Lower(loc.confirm) = Yes
        /\ (loc.confirm # Unbound /\ Lower(loc.confirm) # Yes) =>
              /\ pc = "pause"
              /\ result = "False"
              /\ ~Ran("kubectl delete namespace")

C1_Witness ==
    /\ handler = "delete"
    /\ loc.confirm = <<"Y", "E", "S">>
    /\ Ran("kubectl delete namespace")
    /\ pc = "pause"

\* the user answered a required field's prompt with the empty string
EmptyRequiredField ==
    \/ handler = "create" /\ (loc.username = <<>> \/ loc.purpose = <<>>)
    \/ loc.asked = "namespace" /\ loc.selection = <<>>

\* C2 as stated: on an empty required field the handler returns failure and no
\* external command has been invoked during that invocation.
C2_EmptyFieldNoCommandAtAll ==
    EmptyRequiredField => (result = "False" /\ log = <<>>)

\* commands each handler runs before it asks for the namespace
BeforeNamespacePrompt ==
    {"helm version", "curl get-helm-3 | bash", "helm repo add", "helm repo update",
     "kubectl get namespaces"}

\* C2, amended: on an empty required field the handler returns failure at once
\* and invokes no command from that prompt on: create_namespace has invoked
\* none, the other handlers only those that precede the namespace prompt, the
\* namespace listing being the last.
C2_EmptyFieldNoFurtherCommand ==
    EmptyRequiredField =>
        /\ pc = "pause"
        /\ result = "False"
        /\ handler = "create" => log = <<>>
        /\ handler # "create" =>
              /\ LastCmd = "kubectl get namespaces"
              /\ \A i \in DOMAIN log : log[i].cmd \in BeforeNamespacePrompt

C2_Witness ==
    /\ handler = "deploy"
    /\ loc.asked = "namespace"
    /\ loc.selection = <<>>
    /\ result = "False"
    /\ Ran("helm repo update")

\* C3: run_command never raises; it reports success exactly when the
\* subprocess exited with code zero, and failure on a nonzero exit and on any
\* other exception of subprocess.run.
C3_RunCommandNeverRaises ==
    last.called =>
        /\ ~last.raised
        /\ last.success <=> (last.kind = "exit0")

C3_Witness ==
    /\ last.called
    /\ last.kind = "exception"
    /\ ~last.success
    /\ pc = "deploy_install_helm"

\* C4 as stated: the process ends only through menu choice 6 or a keyboard
\* interrupt, with exit code 0; everything else leads back to the menu.
C4_ExitsOnlyByChoiceOrInterrupt ==
    pc = "exited" => (exitCode = 0 /\ exitCause \in {"choice6", "interrupt"})

\* C5 as stated: no handler returns success after one of its sub-commands failed.
C5_NoSuccessAfterAnyFailure ==
    result = "True" => \A i \in DOMAIN log : log[i].ok

\* the commands whose failure the handlers test and return on
Gating ==
    {"aws configure set region", "aws eks update-kubeconfig", "kubectl create namespace",
     "curl get-helm-3 | bash", "helm repo add", "helm repo update",
     "helm upgrade --install", "helm uninstall", "kubectl delete namespace"}

C5_GatingState ==
    /\ (LastCmd \in Gating /\ ~LastOk) => (pc = "pause" /\ result = "False")
    /\ \A i \in DOMAIN log : (log[i].cmd \in Gating /\ ~log[i].ok) => i = Len(log)
    /\ result = "True" => \A i \in DOMAIN log : log[i].cmd \in Gating => log[i].ok

\* a step that runs a command which fails does not raise
C5_FailingStep ==
    (Len(log') = Len(log) + 1 /\ ~log'[Len(log')].ok) => result' # "raised"

\* C5, amended: when one of the commands a handler tests fails (region set,
\* kubeconfig update, namespace create, helm install, repo add, repo update,
\* upgrade --install, uninstall, namespace delete) the handler returns False
\* at once, so no handler returns success after one of them failed; and no
\* failing command makes a handler raise.  Failures of the probe, listing and
\* display commands do not change the result.
C5_GatingFailureFailsHandler == []C5_GatingState /\ [][C5_FailingStep]_vars

C5_Witness ==
    /\ handler = "deploy"
    /\ LastCmd = "helm upgrade --install"
    /\ ~LastOk
    /\ result = "False"
    /\ ~log[1].ok

\* a decimal numeral
IsDecimal(s) == s # <<>> /\ \A i \in DOMAIN s : s[i] \in DecimalChars

\* C6 as stated: from a numbered list of n entries, input k with 1 <= k <= n
\* selects the k-th entry shown; any other input is taken verbatim as the name
\* and is no error.
C6_SelectionRule ==
    (loc.asked \in {"namespace", "release"} /\ loc.listed) =>
        LET chosen == IF loc.asked = "namespace" THEN loc.namespace ELSE loc.release_name
            k == IntOf(loc.selection)
        IN  /\ result # "raised"
            /\ IF IsDecimal(loc.selection) /\ 1 <= k /\ k <= Len(loc.entries)
               THEN chosen = loc.entries[k]
               ELSE chosen = loc.selection

Range(q) == {q[i] : i \in DOMAIN q}

\* line i of the text is a list entry right under a line holding `hosts:`
IsHostEntry(lines, i) ==
    /\ i > 1
    /\ "hosts:" \in Range(lines[i - 1])
    /\ Len(LStrip(lines[i])) >= 2
    /\ SubSeq(LStrip(lines[i]), 1, 2) = <<"-", "SP">>

IsAnnotation(line) == "ANNOT" \in Range(line)

\* C7 as stated: rewriting an existing values file keeps the line count and
\* changes no line but the host entry under `hosts:` and the annotation line.
C7_RewriteTouchesOnlyHostLines ==
    (handler = "deploy" /\ pc = "deploy_upgrade" /\ fileBefore.exists) =>
        LET before == SplitNL(fileBefore.content)
            after == SplitNL(file.content)
        IN  /\ Len(after) = Len(before)
            /\ \A i \in DOMAIN before :
                  after[i] # before[i] => (IsHostEntry(before, i) \/ IsAnnotation(before[i]))

\* C8 as stated: `kubectl create namespace` is issued only after the
\* confirmation input y, and names <username>-<purpose>.
C8_CreateOnlyOnExactY ==
    (handler = "create" /\ Ran("kubectl create namespace")) =>
        /\ loc.confirm = Str("y")
        /\ log[1].args = <<loc.username \o Str("-") \o loc.purpose>>

\* C8, amended: `kubectl create namespace` is issued only after a confirmation
\* input that lower-cased equals y (y or Y); on any other input the handler
\* returns failure and issues no command; the command names exactly
\* <username>-<purpose>.
C8_CreateOnlyOnYAnyCase ==
    handler = "create" =>
        /\ Ran("kubectl create namespace") =>
              /\ Lower(loc.confirm) = Str("y")
              /\ Len(log) = 1
              /\ log[1].args = <<loc.username \o Str("-") \o loc.purpose>>
        /\ (loc.confirm # Unbound /\ Lower(loc.confirm) # Str("y")) =>
              (pc = "pause" /\ result = "False" /\ log = <<>>)

C8_Witness ==
    /\ handler = "create"
    /\ loc.confirm = Str("Y")
    /\ log = <<[cmd |-> "kubectl create namespace",
                args |-> <<<<"a", "z", "n", "i", "-", "p", "r", "o", "m">>>>,
                ok |-> TRUE]>>
    /\ result = "True"

DeployRequired ==
    {"curl get-helm-3 | bash", "helm repo add", "helm repo update", "helm upgrade --install"}

DeployListings == {"kubectl get pods", "kubectl get svc", "kubectl get ingress"}

OkBefore(cmd, i) == \E j \in 1..(i - 1) : log[j].cmd = cmd /\ log[j].ok

\* C9: in deploy_prometheus a failed required step is the last command of the
\* invocation and the handler returns False, as it does on an empty namespace;
\* helm upgrade --install runs only after helm repo add and helm repo update
\* succeeded; the three listings run only after the upgrade succeeded, and the
\* handler returns True then whatever the listings do.
C9_DeployStepOrder ==
    handler = "deploy" =>
        /\ \A i \in DOMAIN log :
              /\ (log[i].cmd \in DeployRequired /\ ~log[i].ok) =>
                    (i = Len(log) /\ pc = "pause" /\ result = "False")
              /\ log[i].cmd = "helm upgrade --install" =>
                    /\ OkBefore("helm repo update", i)
                    /\ \E j \in 1..(i - 1) :
                          log[j].cmd = "helm repo update" /\ OkBefore("helm repo add", j)
              /\ log[i].cmd \in DeployListings => OkBefore("helm upgrade --install", i)
              /\ (log[i].cmd = "curl get-helm-3 | bash") =>
                    (i = 2 /\ log[1].cmd = "helm version" /\ ~log[1].ok)
        /\ (loc.asked = "namespace" /\ loc.namespace = <<>> /\ result # "raised") =>
              (pc = "pause" /\ result = "False" /\ LastCmd = "kubectl get namespaces")
        /\ result = "True" <=> (pc = "pause" /\ LastCmd = "kubectl get ingress")
        /\ LastCmd = "kubectl get ingress" =>
              /\ log[Len(log) - 1].cmd = "kubectl get svc"
              /\ log[Len(log) - 2].cmd = "kubectl get pods"
              /\ log[Len(log) - 3].cmd = "helm upgrade --install"

C9_Witness ==
    /\ handler = "deploy"
    /\ result = "True"
    /\ Len(log) = 9
    /\ ~log[1].ok
    /\ \A i \in 7..9 : ~log[i].ok

\* stdout of the release listing that is no list of releases with name and chart
Malformed(output) ==
    \/ json_loads(output).type = "JSONDecodeError"
    \/ ListingRaises(json_loads(output))

\* C10 as stated: when the release listing fails, is empty, or cannot be parsed
\* into releases with name and chart, the handler goes on to the manual
\* release-name prompt and then to helm uninstall; it does not raise.
C10_MalformedListFallsBack ==
    (handler = "delete" /\ LastCmd = "helm list -o json"
        /\ (~LastOk \/ loc.output = <<>> \/ Strip(loc.output) = EmptyList
            \/ Malformed(loc.output))) =>
        /\ result # "raised"
        /\ loc.asked = "manual"
        /\ pc = "delete_release_uninstall"

\* C11 as stated: whenever deploy_prometheus returns failure, the values file
\* has the same existence and content as when the handler was invoked.
C11_FailedDeployLeavesFile ==
    (handler = "deploy" /\ result = "False") => file = fileBefore

\* C11, amended: a deploy that returns failure before the values-file step
\* (helm install, repo add, repo update, empty namespace) leaves the file as
\* it was; one that returns failure because helm upgrade --install failed has
\* already created the default file or rewritten the hostname lines for the
\* hostname it was given, and leaves the file so.
C11_FailedDeployFileState ==
    (handler = "deploy" /\ result = "False") =>
        IF Ran("helm upgrade --install")
        THEN /\ file.exists
             /\ file.content =
                   IF fileBefore.exists
                   THEN RewriteHostname(fileBefore.content, loc.hostname)
                   ELSE DefaultValues(loc.hostname)
        ELSE file = fileBefore

C11_Witness ==
    /\ handler = "deploy"
    /\ result = "False"
    /\ LastCmd = "helm upgrade --install"
    /\ fileBefore.exists
    /\ file # fileBefore

====
